---- MODULE Spec2Model ----
(***************************************************************************)
(* Model of the ALSA example programs: the shared hardware configurator    *)
(* configure_hw and tone generator generate_sin (alsa_utils.c), and the    *)
(* two playback programs (sine tone and random noise) that use them.       *)
(* The sound-card driver (alsa-lib) is the environment: every driver call  *)
(* returns a code the driver chooses and writes back values it chooses.    *)
(***************************************************************************)
EXTENDS Integers, Sequences, FiniteSets, TLC

(* ------------------------------------------------------------------ *)
(* Program constants                                                   *)
(* ------------------------------------------------------------------ *)
S_SUCCESS == 0
S_ERROR == 1
Q_14 == 16384
FREQUENCY == 469
NumberOfFrames == 46
NoiseFrames == 10

(* ------------------------------------------------------------------ *)
(* Bounds of the model                                                 *)
(* ------------------------------------------------------------------ *)
\* the device answers the rate negotiation with one of the first NumRates
\* entries of SupportedRates
NumRates == 2
\* the device answers the period negotiation with a count in 1..MaxPeriods
MaxPeriods == 2
\* generate_sin is called with data_length in 0..MaxLen
MaxLen == 3
\* generate_sin is called with a frequency in 1..MaxFreq
MaxFreq == 7
\* the writes the driver failed are counted up to MaxFailCount
MaxFailCount == 2

SupportedRates == <<48000, 96000, 44100, 192000>>
DeviceRates == {SupportedRates[i] : i \in 1..(IF NumRates < 4 THEN NumRates ELSE 4)}
DevicePeriods == 1..MaxPeriods
\* directions the device reports back through the dir pointer
DeviceDirs == {0, 1}
\* return codes of a driver call: success, -EINVAL, -EOWNERDEAD
DriverCodes == {0, -22, -130}

VARIABLES
  prog,        \* which entry point this behaviour runs
  pc,          \* position of the running program
  cfg,         \* the hw_configuration record
  cfgEntry,    \* the record as it was on entry to configure_hw
  calls,       \* driver calls and notices issued by configure_hw, in order
  desired,     \* configure_hw local desired_sample_rate
  cfgRet,      \* value returned by configure_hw (-1: not returned yet)
  failStage,   \* stage at which configure_hw took its error return (0: none)
  prevFail,    \* <<stage, result>> of the previous failed configure_hw call
  handle,      \* the PCM handle of main: "none", "open", "closed"
  buf,         \* the sample buffer of main: "none", "allocated", "freed"
  filled,      \* number of buffer elements the signal generator has filled
  i,           \* loop counter of the streaming loop
  nWrites,     \* number of snd_pcm_writei calls issued
  mainRet,     \* value returned by main (-1: still running)
  teardown,    \* the free and snd_pcm_close calls main has made, in order
  nRecovers,   \* number of snd_pcm_recover calls issued
  nFailed,     \* number of writes the driver failed, up to MaxFailCount
  lastWrite,   \* buffer offset and frame count of the latest snd_pcm_writei
  stepsOk,     \* TRUE while the driver and malloc made every step succeed
  genArgs,     \* arguments of the generate_sin call
  data,        \* the buffer generate_sin writes to
  n,           \* loop counter of generate_sin
  written,     \* indices of data that generate_sin has stored to
  genRet,      \* value returned by generate_sin (-1: not returned yet)
  castMode,    \* what the build makes of an out-of-range float conversion
  prev,        \* arguments and output of the previous generate_sin call
  reused       \* the buffer of this call is the one the previous call filled

cfgVars == <<cfg, cfgEntry, calls, desired, cfgRet, failStage, prevFail>>
mainVars == <<handle, buf, filled, i, nWrites, mainRet,
              teardown, nRecovers, nFailed, lastWrite, stepsOk>>
genVars == <<genArgs, data, n, written, genRet, castMode, prev, reused>>
vars == <<prog, pc, cfg, cfgEntry, calls, desired, cfgRet, failStage, prevFail,
          handle, buf, filled, i, nWrites, mainRet,
          teardown, nRecovers, nFailed, lastWrite, stepsOk,
          genArgs, data, n, written, genRet, castMode, prev, reused>>

(* ------------------------------------------------------------------ *)
(* C integer conversions                                               *)
(* ------------------------------------------------------------------ *)
\* storing an int into an int8_t keeps the low 8 bits, read as signed
ToInt8(x) ==
  LET m == x % 256 IN IF m >= 128 THEN m - 256 ELSE m

\* the test  if ( S_SUCCESS>err )  that follows every driver call
Failed(err) == S_SUCCESS > err

(* ------------------------------------------------------------------ *)
(* configure_hw                                                        *)
(* ------------------------------------------------------------------ *)
StageNames == <<"hw_params_any", "set_access", "set_format", "set_rate_near",
                "set_channels", "set_periods_near", "set_buffer_size_near",
                "hw_params">>

Call(fn, arg, ret, out) == [fn |-> fn, arg |-> arg, ret |-> ret, out |-> out]

\* the configuration of the playback programs' main
MainConfig ==
  [sample_rate |-> 48000, sample_rate_direction |-> 0,
   frame_size_direction |-> 0, period_size |-> 2048, periods |-> 2,
   access_type |-> "RW_INTERLEAVED", num_channels |-> 2, format |-> "S16_LE"]

\* the configuration of the main of basic_pcm.c
BasicConfig ==
  [sample_rate |-> 48000, exact_sample_rate |-> 0,
   sample_rate_direction |-> 0, period_size |-> 1024,
   access_type |-> "RW_INTERLEAVED", num_channels |-> 2, periods |-> 1,
   frame_size_direction |-> 0, format |-> "S16_LE"]

\* the configuration of the main that negotiates inline
HeadphonesConfig ==
  [sample_rate |-> 48000, exact_sample_rate |-> 0,
   sample_rate_direction |-> 0, frame_size |-> 1024,
   access_type |-> "MMAP_NONINTERLEAVED", num_channels |-> 2,
   number_of_frames |-> 1, frame_size_direction |-> 0, format |-> "S16_LE"]

\* variant: every error return carries the number of its stage
AfterCall_StageCode(k, err, next) ==
  IF Failed(err)
  THEN /\ cfgRet' = k
       /\ failStage' = k
       /\ pc' = "cfg_done"
  ELSE /\ cfgRet' = cfgRet
       /\ failStage' = failStage
       /\ pc' = next

\* what follows a driver call at stage k: error return, or the next stage
AfterCall(k, err, next) ==
  IF Failed(err)
  THEN /\ cfgRet' = S_ERROR
       /\ failStage' = k
       /\ pc' = "cfg_done"
  ELSE /\ cfgRet' = cfgRet
       /\ failStage' = failStage
       /\ pc' = next

CfgAny ==
  /\ pc = "cfg_any"
  /\ \E code \in DriverCodes :
       /\ calls' = Append(calls, Call("hw_params_any", 0, code, 0))
       /\ AfterCall(1, ToInt8(code), "cfg_access")
  /\ UNCHANGED <<prog, cfg, cfgEntry, desired, prevFail>>
  /\ UNCHANGED <<mainVars, genVars>>

CfgAccess ==
  /\ pc = "cfg_access"
  /\ \E code \in DriverCodes :
       /\ calls' = Append(calls, Call("set_access", cfg.access_type, code, 0))
       /\ AfterCall(2, ToInt8(code), "cfg_format")
  /\ UNCHANGED <<prog, cfg, cfgEntry, desired, prevFail>>
  /\ UNCHANGED <<mainVars, genVars>>

\* variant: the format stage clears the rate of the record
CfgFormat_ClearsRate ==
  /\ pc = "cfg_format"
  /\ \E code \in DriverCodes :
       /\ calls' = Append(calls, Call("set_format", cfg.format, code, 0))
       /\ AfterCall(3, ToInt8(code), "cfg_rate")
  /\ cfg' = [cfg EXCEPT !.sample_rate = 0]
  /\ UNCHANGED <<prog, cfgEntry, desired, prevFail>>
  /\ UNCHANGED <<mainVars, genVars>>

CfgFormat ==
  /\ pc = "cfg_format"
  /\ \E code \in DriverCodes :
       /\ calls' = Append(calls, Call("set_format", cfg.format, code, 0))
       /\ AfterCall(3, ToInt8(code), "cfg_rate")
  /\ UNCHANGED <<prog, cfg, cfgEntry, desired, prevFail>>
  /\ UNCHANGED <<mainVars, genVars>>

\* variant: the accepted rate is not kept
StoreRate_Dropped(c, r, d) ==
  [c EXCEPT !.sample_rate_direction = d]

\* snd_pcm_hw_params_set_rate_near: the driver writes the accepted rate and
\* the direction back through the two pointers into the record
StoreRate(c, r, d) ==
  [c EXCEPT !.sample_rate = r, !.sample_rate_direction = d]

\* variant: the comparison is inverted
RateNotice_Inverted(want, got) ==
  IF got = want THEN <<Call("warning", want, 0, got)>> ELSE <<>>

\* if ( hw_config->sample_rate!=desired_sample_rate ) printf (Warning ...)
RateNotice(want, got) ==
  IF got # want THEN <<Call("warning", want, 0, got)>> ELSE <<>>

\* basic_pcm.c: hw_config->exact_sample_rate = hw_config->sample_rate; the
\* driver then writes the accepted rate into exact_sample_rate
StoreExactRate(c, r, d) ==
  [c EXCEPT !.exact_sample_rate = r, !.sample_rate_direction = d]

\* the rate stage: alsa_utils and the noise program keep the entry rate in
\* the local desired_sample_rate and let the driver overwrite sample_rate;
\* basic_pcm.c lets it overwrite the copy exact_sample_rate
CfgRate ==
  /\ pc = "cfg_rate"
  /\ \E code \in DriverCodes, r \in DeviceRates, d \in DeviceDirs :
       LET err == ToInt8(code) IN
       /\ IF prog = "basic_pcm"
          THEN /\ desired' = desired
               /\ cfg' = StoreExactRate(cfg, r, d)
               /\ calls' = Append(calls, Call("set_rate_near",
                                              cfg.sample_rate, code, r))
                     \o (IF Failed(err) THEN <<>>
                         ELSE RateNotice(cfg'.sample_rate,
                                         cfg'.exact_sample_rate))
          ELSE /\ desired' = cfg.sample_rate
               /\ cfg' = StoreRate(cfg, r, d)
               /\ calls' = Append(calls, Call("set_rate_near",
                                              cfg.sample_rate, code, r))
                     \o (IF Failed(err) THEN <<>>
                         ELSE RateNotice(desired', cfg'.sample_rate))
       /\ AfterCall(4, err, "cfg_channels")
  /\ UNCHANGED <<prog, cfgEntry, prevFail>>
  /\ UNCHANGED <<mainVars, genVars>>

CfgChannels ==
  /\ pc = "cfg_channels"
  /\ \E code \in DriverCodes :
       /\ calls' = Append(calls, Call("set_channels", cfg.num_channels, code, 0))
       /\ AfterCall(5, ToInt8(code), "cfg_periods")
  /\ UNCHANGED <<prog, cfg, cfgEntry, desired, prevFail>>
  /\ UNCHANGED <<mainVars, genVars>>

\* variant: the accepted count lands in period_size
StorePeriods_IntoSize(c, p, d) ==
  [c EXCEPT !.period_size = p, !.frame_size_direction = d]

\* snd_pcm_hw_params_set_periods_near: the driver writes the accepted count
\* and the direction back
StorePeriods(c, p, d) ==
  [c EXCEPT !.periods = p, !.frame_size_direction = d]

CfgPeriods ==
  /\ pc = "cfg_periods"
  /\ \E code \in DriverCodes, p \in DevicePeriods, d \in DeviceDirs :
       /\ cfg' = StorePeriods(cfg, p, d)
       /\ calls' = Append(calls, Call("set_periods_near", cfg.periods, code, p))
       /\ AfterCall(6, ToInt8(code), "cfg_buffer")
  /\ UNCHANGED <<prog, cfgEntry, desired, prevFail>>
  /\ UNCHANGED <<mainVars, genVars>>

\* variant: the product is scaled down as in the other configure_hw
BufferFramesShared_Shifted(c) == (c.period_size * c.periods) \div 4

\* buffer_size = (hw_config->period_size*hw_config->periods), alsa_utils.
\* snd_pcm_uframes_t is an unsigned long of at least 32 bits; the products
\* of the modelled period sizes and counts stay far below 2^32.
BufferFramesShared(c) == c.period_size * c.periods

\* buffer_size = (...)>>2, the configure_hw of the random-noise program
BufferFramesNoise(c) == (c.period_size * c.periods) \div 4

\* variant: basic_pcm.c submits the product itself
BufferFramesBasic_Unshifted(c) == c.period_size * c.periods

\* buffer_size = (...)>>2, the configure_hw of basic_pcm.c
BufferFramesBasic(c) == (c.period_size * c.periods) \div 4

\* only the configure_hw of alsa_utils submits the product itself
BufferFrames(p, c) ==
  CASE p = "noise" -> BufferFramesNoise(c)
    [] p = "basic_pcm" -> BufferFramesBasic(c)
    [] OTHER -> BufferFramesShared(c)

\* the buffer size the driver writes back goes to the local buffer_size only
CfgBuffer ==
  /\ pc = "cfg_buffer"
  /\ \E code \in DriverCodes, halve \in BOOLEAN :
       LET frames == BufferFrames(prog, cfg)
           got == IF halve THEN frames \div 2 ELSE frames IN
       /\ calls' = Append(calls, Call("set_buffer_size_near", frames, code, got))
       /\ AfterCall(7, ToInt8(code), "cfg_commit")
  /\ UNCHANGED <<prog, cfg, cfgEntry, desired, prevFail>>
  /\ UNCHANGED <<mainVars, genVars>>

CfgCommit ==
  /\ pc = "cfg_commit"
  /\ \E code \in DriverCodes :
       LET err == ToInt8(code) IN
       /\ calls' = Append(calls, Call("hw_params", 0, code, 0))
       /\ IF Failed(err)
          THEN /\ cfgRet' = S_ERROR
               /\ failStage' = 8
          ELSE /\ cfgRet' = S_SUCCESS
               /\ failStage' = failStage
       /\ pc' = "cfg_done"
  /\ UNCHANGED <<prog, cfg, cfgEntry, desired, prevFail>>
  /\ UNCHANGED <<mainVars, genVars>>

ConfigureHw ==
  \/ CfgAny \/ CfgAccess \/ CfgFormat \/ CfgRate
  \/ CfgChannels \/ CfgPeriods \/ CfgBuffer \/ CfgCommit

(* ------------------------------------------------------------------ *)
(* configure_hw called on its own, call after call                     *)
(* ------------------------------------------------------------------ *)
\* configurations a caller passes in
CallerConfigs ==
  {[MainConfig EXCEPT !.sample_rate = r, !.sample_rate_direction = d,
                      !.frame_size_direction = d]
     : r \in DeviceRates, d \in {0, -1}}

\* no configure_hw call was made yet
CfgIdle ==
  /\ cfg = MainConfig
  /\ cfgEntry = MainConfig
  /\ calls = <<>>
  /\ desired = 0
  /\ cfgRet = -1
  /\ failStage = 0
  /\ prevFail = <<0, -1>>

\* no main is running
MainIdle ==
  /\ handle = "none"
  /\ buf = "none"
  /\ filled = 0
  /\ i = 0
  /\ nWrites = 0
  /\ mainRet = -1
  /\ teardown = <<>>
  /\ nRecovers = 0
  /\ nFailed = 0
  /\ lastWrite = [off |-> 0, frames |-> 0]
  /\ stepsOk = TRUE

\* there is no previous call of generate_sin
NoPrev == [valid |-> FALSE, null |-> TRUE, f |-> 0, fs |-> 1, len |-> 0,
           out |-> <<>>]

\* no generate_sin call was made
GenIdle ==
  /\ genArgs = [null |-> TRUE, f |-> 0, fs |-> 1, len |-> 0, fill |-> 0]
  /\ data = <<>>
  /\ n = 0
  /\ written = {}
  /\ genRet = -1
  /\ castMode = "unobserved"
  /\ prev = NoPrev
  /\ reused = FALSE

InitCfg ==
  /\ prog = "configure_hw"
  /\ pc = "idle"
  /\ CfgIdle
  /\ MainIdle
  /\ GenIdle

CfgCall ==
  /\ pc \in {"idle", "cfg_done"}
  /\ prog = "configure_hw"
  /\ \E c \in CallerConfigs :
       /\ cfg' = c
       /\ cfgEntry' = c
  /\ calls' = <<>>
  /\ desired' = 0
  /\ cfgRet' = -1
  /\ failStage' = 0
  /\ prevFail' = IF failStage # 0 THEN <<failStage, cfgRet>> ELSE prevFail
  /\ pc' = "cfg_any"
  /\ UNCHANGED <<prog, mainVars, genVars>>

NextCfg == CfgCall \/ ConfigureHw

SpecCfg == InitCfg /\ [][NextCfg]_vars

(* ------------------------------------------------------------------ *)
(* generate_sin                                                        *)
(* ------------------------------------------------------------------ *)
\* sampling frequencies of the modelled calls: the phase 2*pi*n*f/fs is then
\* a multiple of 45 or of 30 degrees
GenRates == {8, 12}

\* (float)sin(2*pi*k/8) * Q_14 and (float)sin(2*pi*k/12) * Q_14, in
\* thousandths, for k = 0, 1, ...
SinTable8 ==
  <<0, 11585237, 16384000, 11585237, 0, -11585237, -16384000, -11585237>>

SinTable12 ==
  <<0, 8192000, 14188960, 16384000, 14188960, 8192000,
    0, -8192000, -14188960, -16384000, -14188960, -8192000>>

\* sin_val*Q_14 for sin_val = sin (2*M_PI*n*f/fs), in thousandths
SinQ14Milli(k, f, fs) ==
  LET phase == (k * f) % fs IN
  IF fs = 8 THEN SinTable8[phase + 1] ELSE SinTable12[phase + 1]

\* conversion of a floating value to an integer type discards the fraction
TruncToZero(milli) ==
  IF milli >= 0 THEN milli \div 1000 ELSE -((-milli) \div 1000)

\* an out-of-range conversion from float to uint16_t is undefined: a build
\* yields the low 16 bits of the signed conversion, or the saturated value 0
CastModes == {"wrap", "saturate"}

\* (uint16_t)x for a floating x with integral part t: t when it is
\* representable, otherwise what the build's conversion yields
CastToU16(mode, t) ==
  IF t >= 0 /\ t <= 65535 THEN t
  ELSE IF mode = "wrap" THEN t % 65536 ELSE 0

\* storing a uint16_t into an int16_t element
StoreInt16(u) == IF u >= 32768 THEN u - 65536 ELSE u

\* the value stored by  data[2*n] = (uint16_t)(sin_val*Q_14)
LeftSample(mode, k, f, fs) ==
  StoreInt16(CastToU16(mode, TruncToZero(SinQ14Milli(k, f, fs))))

\* variant: the right slot is left silent
RightSample_Silent(left) == 0

\* data[2*n+1] = data[2*n]
RightSample(left) == left

\* variant: the loop runs once too often
GenLoopCond_Inclusive(k, len) == k <= len

\* the loop condition  n<data_length
GenLoopCond(k, len) == k < len

\* variant: err is initialised to S_SUCCESS
GenResult_AlwaysSuccess(null) == S_SUCCESS

\* the value generate_sin returns: err starts as S_ERROR and becomes
\* S_SUCCESS in the non-null branch
GenResult(null) == IF null THEN S_ERROR ELSE S_SUCCESS

\* one iteration of the for loop
GenIter ==
  /\ pc = "gen_loop"
  /\ ~genArgs.null
  /\ GenLoopCond(n, genArgs.len)
  /\ LET left == LeftSample(castMode, n, genArgs.f, genArgs.fs) IN
       data' = [data EXCEPT ![2*n] = left, ![2*n + 1] = RightSample(left)]
  /\ written' = written \cup {2*n, 2*n + 1}
  /\ n' = n + 1
  /\ UNCHANGED <<prog, pc, genArgs, genRet, castMode, prev, reused>>
  /\ UNCHANGED <<cfgVars, mainVars>>

\* the loop is over, or data is NULL: return err
GenReturn ==
  /\ pc = "gen_loop"
  /\ genArgs.null \/ ~GenLoopCond(n, genArgs.len)
  /\ genRet' = GenResult(genArgs.null)
  /\ pc' = "gen_done"
  /\ UNCHANGED <<prog, genArgs, data, n, written, castMode, prev, reused>>
  /\ UNCHANGED <<cfgVars, mainVars>>

GenerateSin == GenIter \/ GenReturn

\* the calls of generate_sin: any frequency, rate and length within the
\* bounds, a buffer of 2*MaxLen + 2 elements holding arbitrary values
GenArgSet ==
  [null : BOOLEAN, f : 1..MaxFreq, fs : GenRates, len : 0..MaxLen,
   fill : {0, 21845}]

InitGen ==
  /\ prog = "generate_sin"
  /\ pc = "gen_loop"
  /\ genArgs \in GenArgSet
  /\ data = [j \in 0..(2*MaxLen + 1) |-> genArgs.fill]
  /\ n = 0
  /\ written = {}
  /\ genRet = -1
  /\ castMode \in CastModes
  /\ prev = NoPrev
  /\ reused = FALSE
  /\ CfgIdle
  /\ MainIdle

\* what a returned call leaves for comparison: its arguments and the
\* elements it stored
Finished ==
  [valid |-> TRUE, null |-> genArgs.null, f |-> genArgs.f,
   fs |-> genArgs.fs, len |-> genArgs.len,
   out |-> [j \in 0..(2*MaxLen + 1) |-> IF j \in written THEN data[j] ELSE 0]]

\* variant: the loop counter is a static that keeps its value
GenFirstIndex_Carried(last) == last

\* for (uint32_t n = 0; ...: the counter is a local set to 0 by every call
GenFirstIndex(last) == 0

\* the caller calls generate_sin a second time, on a buffer holding
\* arbitrary values or on the buffer the first call has filled
GenCall ==
  /\ pc = "gen_done"
  /\ prog = "generate_sin"
  /\ ~prev.valid
  /\ \E a \in GenArgSet, again \in BOOLEAN :
       /\ genArgs' = a
       /\ reused' = again
       /\ data' = IF again THEN data
                  ELSE [j \in 0..(2*MaxLen + 1) |-> a.fill]
  /\ prev' = Finished
  /\ n' = GenFirstIndex(n)
  /\ written' = {}
  /\ genRet' = -1
  /\ pc' = "gen_loop"
  /\ UNCHANGED <<prog, castMode, cfgVars, mainVars>>

NextGen == GenerateSin \/ GenCall

SpecGen == InitGen /\ [][NextGen]_vars

(* ------------------------------------------------------------------ *)
(* The playback programs: main of the sine program ("sine") and of the *)
(* random-noise program ("noise")                                      *)
(* ------------------------------------------------------------------ *)
Programs == {"sine", "noise"}

\* the programs whose main opens a device and calls a configure_hw
ConfigureCallers == Programs \cup {"basic_pcm"}

\* every example program that opens a playback device
Examples == ConfigureCallers \cup {"part_000"}

\* the configuration record the main of p builds
ConfigOf(p) ==
  CASE p = "basic_pcm" -> BasicConfig
    [] p = "part_000" -> HeadphonesConfig
    [] OTHER -> MainConfig

\* the fixed iteration count of the streaming loop
LoopCount(p) == IF p = "noise" THEN NoiseFrames ELSE NumberOfFrames

\* return values of snd_pcm_writei: all frames written, a short write of
\* 200 frames, or -EPIPE
WriteCodes == {MainConfig.period_size, 200, -32}

\* the test main applies to the value configure_hw returned:
\* if ( S_SUCCESS>err )
ConfigureFailed(err) == S_SUCCESS > err

\* the test main applies to the value generate_sin returned:
\* if ( S_ERROR==err )
GenerateFailed(err) == S_ERROR = err

\* every driver call of the running configure_hw call returned success
CallsOk == \A j \in 1..Len(calls) : calls[j].ret >= 0

\* the state of the handle and of the buffer after main has made the
\* calls of seq
Closed(h, seq) ==
  IF \E j \in 1..Len(seq) : seq[j] = "close" THEN "closed" ELSE h

Freed(b, seq) ==
  IF \E j \in 1..Len(seq) : seq[j] = "free" THEN "freed" ELSE b

\* main returns ret after the calls of seq
MainReturn(seq, ret) ==
  /\ teardown' = teardown \o seq
  /\ handle' = Closed(handle, seq)
  /\ buf' = Freed(buf, seq)
  /\ mainRet' = ret
  /\ pc' = "exit"

\* the calls main makes before each of its returns
ConfigFailTeardown == <<"close">>
AllocFailTeardown == <<"close">>

\* basic_pcm.c returns from a failed configure_hw without a call, and ends
\* with snd_pcm_close and the closing brace of main
BasicConfigFailTeardown == <<>>
BasicEndTeardown == <<"close">>

ConfigFailTeardownOf(p) ==
  IF p = "basic_pcm" THEN BasicConfigFailTeardown ELSE ConfigFailTeardown
GenFailTeardown == <<"free", "close">>

\* variant: the abort path forgets the buffer
AbortTeardown_Leak == <<"close">>

AbortTeardown == <<"free", "close">>
FinishTeardown == <<"free", "close">>

\* err = snd_pcm_open (...); an open that failed without being noticed
\* leaves main with an invalid handle
MainOpen ==
  /\ pc = "open"
  /\ prog \in ConfigureCallers
  /\ \E code \in DriverCodes :
       /\ stepsOk' = (code >= 0)
       /\ IF Failed(ToInt8(code))
          THEN /\ mainRet' = S_ERROR
               /\ pc' = "exit"
               /\ UNCHANGED handle
          ELSE /\ handle' = IF code >= 0 THEN "open" ELSE "invalid"
               /\ pc' = "cfg_any"
               /\ UNCHANGED mainRet
  /\ UNCHANGED <<prog, cfgVars, buf, filled, i, nWrites, genVars>>
  /\ UNCHANGED <<teardown, nRecovers, nFailed, lastWrite>>

\* err = configure_hw (pcm_handle, &hw_configuration) has returned; the
\* call log and the local of configure_hw end with the call
MainCheckCfg ==
  /\ pc = "cfg_done"
  /\ prog \in ConfigureCallers
  /\ stepsOk' = (stepsOk /\ CallsOk)
  /\ calls' = <<>>
  /\ desired' = 0
  /\ IF ConfigureFailed(ToInt8(cfgRet))
     THEN MainReturn(ConfigFailTeardownOf(prog), S_ERROR)
     ELSE IF prog = "basic_pcm"
          THEN MainReturn(BasicEndTeardown, 0)
          ELSE /\ pc' = "alloc"
               /\ UNCHANGED <<handle, buf, mainRet, teardown>>
  /\ UNCHANGED <<prog, cfg, cfgEntry, cfgRet, failStage, prevFail>>
  /\ UNCHANGED <<filled, i, nWrites, nRecovers, nFailed, lastWrite, genVars>>

\* sizeof(sine_wave), the size of a pointer: 4 bytes on a 32-bit build,
\* 8 on a 64-bit one
PointerSizes == {4, 8}

\* sizeof(int16_t), the size of one element of the buffer
SampleBytes == 2

\* variant: the element size is the size of a sample
AllocBytes_PerSample(ps, size) == SampleBytes * size

\* the byte count of  malloc (sizeof(sine_wave)*sine_size)
AllocBytes(ps, size) == ps * size

\* the numbers of int16_t elements such a buffer can hold, over the builds
BufferCapacities(size) ==
  {AllocBytes(ps, size) \div SampleBytes : ps \in PointerSizes}

\* sine_size = period_size*periods; malloc; NULL check
MainAlloc ==
  /\ pc = "alloc"
  /\ \E ok \in BOOLEAN :
       /\ stepsOk' = (stepsOk /\ ok)
       /\ IF ok
          THEN /\ buf' = "allocated"
               /\ pc' = "generate"
               /\ UNCHANGED <<handle, mainRet, teardown>>
          ELSE MainReturn(AllocFailTeardown, S_ERROR)
  /\ UNCHANGED <<prog, cfgVars, filled, i, nWrites, genVars>>
  /\ UNCHANGED <<nRecovers, nFailed, lastWrite>>

\* sine: err = generate_sin (sine_wave, FREQUENCY, sample_rate, sine_size),
\* the rate passed through the uint16_t parameter fs;
\* noise: the loop  noise[i] = (int16_t)random ()  over noise_size elements
MainGenerate ==
  /\ pc = "generate"
  /\ LET size == cfg.period_size * cfg.periods IN
     IF prog = "sine"
     THEN /\ genArgs' = [null |-> FALSE, f |-> FREQUENCY,
                         fs |-> cfg.sample_rate % 65536, len |-> size,
                         fill |-> 0]
          /\ genRet' = GenResult(FALSE)
          /\ stepsOk' = (stepsOk /\ GenResult(FALSE) = S_SUCCESS)
          /\ IF GenerateFailed(GenResult(FALSE))
             THEN /\ MainReturn(GenFailTeardown, S_ERROR)
                  /\ UNCHANGED filled
             ELSE /\ filled' = 2 * size
                  /\ pc' = "loop"
                  /\ UNCHANGED <<buf, handle, mainRet, teardown>>
     ELSE /\ filled' = size
          /\ pc' = "loop"
          /\ UNCHANGED <<buf, handle, mainRet, teardown, stepsOk>>
          /\ UNCHANGED <<genArgs, genRet>>
  /\ UNCHANGED <<prog, cfgVars, i, nWrites, data, n, written>>
  /\ UNCHANGED <<castMode, prev, reused>>
  /\ UNCHANGED <<nRecovers, nFailed, lastWrite>>

\* variant: a recovered write is sent once more
WritesInIteration_Retry(recovered) == IF recovered THEN 2 ELSE 1

\* the snd_pcm_writei calls of one iteration: the loop goes on to the next
\* iteration after a recovery
WritesInIteration(recovered) == 1

\* one iteration of the streaming loop: write, recover when the write
\* failed, give up when the recovery failed
MainLoopIter ==
  /\ pc = "loop"
  /\ i < LoopCount(prog)
  /\ \E wcode \in WriteCodes, rcode \in DriverCodes :
       LET werr == ToInt8(wcode)
           recover == Failed(werr)
           err == IF recover THEN ToInt8(rcode) ELSE werr IN
       /\ lastWrite' = [off |-> 0, frames |-> cfg.period_size]
       /\ nRecovers' = IF recover THEN nRecovers + 1 ELSE nRecovers
       /\ nFailed' = IF wcode < 0 /\ nFailed < MaxFailCount
                     THEN nFailed + 1 ELSE nFailed
       /\ stepsOk' = (stepsOk /\ (wcode >= 0 \/ (recover /\ rcode >= 0)))
       /\ IF Failed(err)
          THEN /\ MainReturn(AbortTeardown, S_ERROR)
               /\ nWrites' = nWrites + 1
               /\ UNCHANGED i
          ELSE /\ i' = i + 1
               /\ nWrites' = nWrites + WritesInIteration(recover)
               /\ UNCHANGED <<buf, handle, mainRet, pc, teardown>>
  /\ UNCHANGED <<prog, cfgVars, filled, genVars>>

\* the loop is over: free, close, return S_SUCCESS
MainFinish ==
  /\ pc = "loop"
  /\ ~(i < LoopCount(prog))
  /\ MainReturn(FinishTeardown, S_SUCCESS)
  /\ UNCHANGED <<prog, cfgVars, filled, i, nWrites, genVars>>
  /\ UNCHANGED <<nRecovers, nFailed, lastWrite, stepsOk>>

(* ------------------------------------------------------------------ *)
(* the main that negotiates the hardware parameters inline             *)
(* ------------------------------------------------------------------ *)
\* uint8_t err = ...: the driver's int is stored in an unsigned byte
ToUint8(x) == x % 256

\* the test  if (S_SUCCESS != err)  of this main
FailedU8(err) == S_SUCCESS # err

\* what this main leaves alone: it calls no configure_hw, allocates no
\* buffer, writes nothing and never calls free or snd_pcm_close
hwUntouched == <<prog, cfgEntry, desired, cfgRet, failStage, prevFail,
                 buf, filled, i, nWrites, teardown, nRecovers, nFailed,
                 lastWrite, genVars>>

\* what follows a driver call: return ret, or the next call
AfterHwCall(err, next, ret) ==
  IF FailedU8(err)
  THEN /\ mainRet' = ret
       /\ pc' = "exit"
  ELSE /\ mainRet' = mainRet
       /\ pc' = next

HwOpen ==
  /\ pc = "hw_open"
  /\ \E code \in DriverCodes :
       /\ stepsOk' = (code >= 0)
       /\ handle' = IF FailedU8(ToUint8(code)) THEN handle
                    ELSE IF code >= 0 THEN "open" ELSE "invalid"
       /\ AfterHwCall(ToUint8(code), "hw_access", S_ERROR)
  /\ UNCHANGED <<cfg, calls, hwUntouched>>

\* the first negotiation call: no snd_pcm_hw_params_any precedes it
HwAccess ==
  /\ pc = "hw_access"
  /\ \E code \in DriverCodes :
       /\ stepsOk' = (stepsOk /\ code >= 0)
       /\ calls' = Append(calls, Call("set_access", cfg.access_type, code, 0))
       /\ AfterHwCall(ToUint8(code), "hw_format", S_ERROR)
  /\ UNCHANGED <<cfg, handle, hwUntouched>>

HwFormat ==
  /\ pc = "hw_format"
  /\ \E code \in DriverCodes :
       /\ stepsOk' = (stepsOk /\ code >= 0)
       /\ calls' = Append(calls, Call("set_format", cfg.format, code, 0))
       /\ AfterHwCall(ToUint8(code), "hw_rate", S_ERROR)
  /\ UNCHANGED <<cfg, handle, hwUntouched>>

\* the rate handed to the driver is exact_sample_rate as main initialised
\* it; sample_rate is only compared with the answer
HwRate ==
  /\ pc = "hw_rate"
  /\ \E code \in DriverCodes, r \in DeviceRates, d \in DeviceDirs :
       LET err == ToUint8(code) IN
       /\ stepsOk' = (stepsOk /\ code >= 0)
       /\ cfg' = StoreExactRate(cfg, r, d)
       /\ calls' = Append(calls, Call("set_rate_near",
                                      cfg.exact_sample_rate, code, r))
                     \o (IF FailedU8(err) THEN <<>>
                         ELSE RateNotice(cfg'.sample_rate,
                                         cfg'.exact_sample_rate))
       /\ AfterHwCall(err, "hw_channels", S_ERROR)
  /\ UNCHANGED <<handle, hwUntouched>>

HwChannels ==
  /\ pc = "hw_channels"
  /\ \E code \in DriverCodes :
       /\ stepsOk' = (stepsOk /\ code >= 0)
       /\ calls' = Append(calls, Call("set_channels", cfg.num_channels, code, 0))
       /\ AfterHwCall(ToUint8(code), "hw_periods", S_ERROR)
  /\ UNCHANGED <<cfg, handle, hwUntouched>>

\* the period count negotiated is the field frame_size, which the driver
\* overwrites with the count it accepted
HwPeriods ==
  /\ pc = "hw_periods"
  /\ \E code \in DriverCodes, d \in DeviceDirs,
        p \in DevicePeriods \cup {HeadphonesConfig.frame_size} :
       /\ stepsOk' = (stepsOk /\ code >= 0)
       /\ cfg' = [cfg EXCEPT !.frame_size = p, !.frame_size_direction = d]
       /\ calls' = Append(calls, Call("set_periods_near", cfg.frame_size, code, p))
       /\ AfterHwCall(ToUint8(code), "hw_buffer", S_ERROR)
  /\ UNCHANGED <<handle, hwUntouched>>

\* buffer_size = (frame_size * number_of_frames) >> 2
BufferFramesInline(c) == (c.frame_size * c.number_of_frames) \div 4

HwBuffer ==
  /\ pc = "hw_buffer"
  /\ \E code \in DriverCodes, halve \in BOOLEAN :
       LET frames == BufferFramesInline(cfg)
           got == IF halve THEN frames \div 2 ELSE frames IN
       /\ stepsOk' = (stepsOk /\ code >= 0)
       /\ calls' = Append(calls, Call("set_buffer_size_near", frames, code, got))
       /\ AfterHwCall(ToUint8(code), "hw_commit", S_ERROR)
  /\ UNCHANGED <<cfg, handle, hwUntouched>>

\* snd_pcm_hw_params, then  return (-1)  or the closing brace of main,
\* which returns 0
HwCommit ==
  /\ pc = "hw_commit"
  /\ \E code \in DriverCodes :
       /\ stepsOk' = (stepsOk /\ code >= 0)
       /\ calls' = Append(calls, Call("hw_params", 0, code, 0))
       /\ mainRet' = IF FailedU8(ToUint8(code)) THEN -1 ELSE 0
       /\ pc' = "exit"
  /\ UNCHANGED <<cfg, handle, hwUntouched>>

InlineMain ==
  \/ HwOpen \/ HwAccess \/ HwFormat \/ HwRate
  \/ HwChannels \/ HwPeriods \/ HwBuffer \/ HwCommit

(* ------------------------------------------------------------------ *)
(* the example programs                                                *)
(* ------------------------------------------------------------------ *)
Init ==
  /\ prog \in Examples
  /\ pc = IF prog = "part_000" THEN "hw_open" ELSE "open"
  /\ cfg = ConfigOf(prog)
  /\ cfgEntry = ConfigOf(prog)
  /\ calls = <<>>
  /\ desired = 0
  /\ cfgRet = -1
  /\ failStage = 0
  /\ prevFail = <<0, -1>>
  /\ MainIdle
  /\ GenIdle

Next ==
  \/ MainOpen \/ ConfigureHw \/ MainCheckCfg \/ MainAlloc
  \/ MainGenerate \/ MainLoopIter \/ MainFinish
  \/ InlineMain

Spec == Init /\ [][Next]_vars

(* ================================================================== *)
(* Properties                                                          *)
(* ================================================================== *)
IsNotice(c) == c.fn = "warning"
IsDriverCall(c) == c.fn # "warning"

\* the driver calls of the running configure_hw call, notices left out
DriverCalls == SelectSeq(calls, IsDriverCall)

\* the driver has accepted every call so far and written back what it was given
AllAccepted ==
  \A j \in 1..Len(calls) :
    /\ calls[j].ret = 0
    /\ calls[j].fn \in {"set_rate_near", "set_periods_near",
                        "set_buffer_size_near"} => calls[j].out = calls[j].arg

\* the driver has returned success from every call so far
AllSucceeded == \A j \in 1..Len(calls) : calls[j].ret = 0

\* C1: against a device that accepts every requested parameter unchanged,
\* configure_hw issues exactly the eight driver calls probe, access, format,
\* rate, channels, periods, buffer size, commit, in this order, returns
\* S_SUCCESS, and sample_rate and periods are as on entry.
C1_AcceptingDevice ==
  AllAccepted =>
    /\ Len(calls) <= 8
    /\ \A j \in 1..Len(calls) : calls[j].fn = StageNames[j]
    /\ pc = "cfg_done" =>
         /\ Len(calls) = 8
         /\ cfgRet = S_SUCCESS
         /\ cfg.sample_rate = cfgEntry.sample_rate
         /\ cfg.periods = cfgEntry.periods

C1_Witness ==
  /\ pc = "cfg_done"
  /\ AllAccepted
  /\ Len(calls) = 8
  /\ cfgRet = S_SUCCESS

\* C2: configure_hw is fail-fast: a driver call that returns a failure
\* (a negative code) is the last driver call of the pass and the pass
\* returns an error.
C2_FailFast ==
  /\ \A j \in 1..Len(DriverCalls) :
       DriverCalls[j].ret < 0 => j = Len(DriverCalls)
  /\ (pc = "cfg_done" /\ \E j \in 1..Len(DriverCalls) : DriverCalls[j].ret < 0)
       => cfgRet = S_ERROR

\* C3: in the playback programs, once configure_hw has returned an error no
\* buffer is allocated, nothing is generated and no write is issued, and
\* main closes the device and returns S_ERROR.
C3_ConfigFailureAborts ==
  (prog \in Programs /\ cfgRet = S_ERROR) =>
    /\ buf = "none"
    /\ filled = 0
    /\ nWrites = 0
    /\ pc \in {"cfg_done", "exit"}
    /\ pc = "exit" => (handle = "closed" /\ mainRet = S_ERROR)

C5_RateAdjusted ==
  (AllSucceeded /\ Len(calls) >= 4 /\ calls[4].out # calls[4].arg) =>
    /\ calls[4].fn = "set_rate_near"
    /\ calls[4].arg = cfgEntry.sample_rate
    /\ Len(calls) >= 5
    /\ calls[5] = Call("warning", cfgEntry.sample_rate, 0, calls[4].out)
    /\ Len(calls) >= 6 => calls[6].fn = "set_channels"
    /\ \A j \in 6..Len(calls) : ~IsNotice(calls[j])
    /\ cfg.sample_rate = calls[4].out
    /\ pc = "cfg_done" => (cfgRet = S_SUCCESS /\ Len(calls) = 9)

C5_Witness ==
  /\ pc = "cfg_done"
  /\ AllSucceeded
  /\ Len(calls) = 9
  /\ calls[4].out # calls[4].arg
  /\ cfg.sample_rate # cfgEntry.sample_rate

\* C6: in the shared configure_hw the frame count handed to the buffer-size
\* negotiation is period_size times the period count the device wrote back
\* at the period stage, unscaled; periods holds that count afterwards, and
\* the buffer size the driver writes back reaches no field of the record.
C6_BufferFrames ==
  (prog # "noise" /\ Len(DriverCalls) >= 7) =>
    LET pcall == DriverCalls[6]
        bcall == DriverCalls[7] IN
    /\ pcall.fn = "set_periods_near"
    /\ bcall.fn = "set_buffer_size_near"
    /\ bcall.arg = cfgEntry.period_size * pcall.out
    /\ cfg.periods = pcall.out
    /\ cfg.period_size = cfgEntry.period_size

C6_Witness ==
  /\ prog # "noise"
  /\ pc = "cfg_done"
  /\ cfgRet = S_SUCCESS
  /\ AllSucceeded
  /\ Len(DriverCalls) = 8
  /\ DriverCalls[6].out # DriverCalls[6].arg
  /\ DriverCalls[7].out # DriverCalls[7].arg

\* C7 as stated: the six fields other than sample_rate and periods keep
\* their entry values.
C7_TwoFieldsOnly ==
  /\ cfg.sample_rate_direction = cfgEntry.sample_rate_direction
  /\ cfg.frame_size_direction = cfgEntry.frame_size_direction
  /\ cfg.period_size = cfgEntry.period_size
  /\ cfg.access_type = cfgEntry.access_type
  /\ cfg.num_channels = cfgEntry.num_channels
  /\ cfg.format = cfgEntry.format

\* C7 amended: period_size, access_type, num_channels and format keep their
\* entry values whatever the device does; the two direction fields are
\* handed to the driver by pointer, and a direction differs from its entry
\* value only once its stage (rate, periods) was reached.
C7_FourFieldsKept ==
  /\ cfg.period_size = cfgEntry.period_size
  /\ cfg.access_type = cfgEntry.access_type
  /\ cfg.num_channels = cfgEntry.num_channels
  /\ cfg.format = cfgEntry.format
  /\ cfg.sample_rate_direction # cfgEntry.sample_rate_direction
       => Len(DriverCalls) >= 4
  /\ cfg.frame_size_direction # cfgEntry.frame_size_direction
       => Len(DriverCalls) >= 6

C7_Witness ==
  /\ pc = "cfg_done"
  /\ cfg.sample_rate_direction # cfgEntry.sample_rate_direction
  /\ cfg.frame_size_direction # cfgEntry.frame_size_direction
  /\ cfg.sample_rate # cfgEntry.sample_rate
  /\ cfg.periods # cfgEntry.periods

\* C8: every frame generate_sin has written holds the same value in its
\* left slot data[2k] and its right slot data[2k+1].
C8_LeftEqualsRight ==
  (prog = "generate_sin" /\ ~genArgs.null) =>
    /\ \A k \in 0..(n - 1) : data[2*k] = data[2*k + 1]
    /\ pc = "gen_done" => n = genArgs.len

C8_Witness ==
  /\ prog = "generate_sin"
  /\ pc = "gen_done"
  /\ genArgs.len >= 2
  /\ \E k \in 0..(genArgs.len - 1) :
       /\ data[2*k] # 0
       /\ data[2*k] # genArgs.fill
       /\ data[2*k + 1] = data[2*k]

\* C9: every frame generate_sin has written holds the truncated value of
\* sin(2*pi*k*f/fs) * 16384, also where the sine is negative, and lies in
\* -16384 .. 16384.
C9_TruncatedQ14 ==
  (prog = "generate_sin" /\ ~genArgs.null) =>
    \A k \in 0..(n - 1) :
      /\ data[2*k] = TruncToZero(SinQ14Milli(k, genArgs.f, genArgs.fs))
      /\ data[2*k] >= -Q_14
      /\ data[2*k] <= Q_14

\* the buffer still holds what the caller passed: the fill values, or what
\* the first call stored when the caller passed that buffer again
BufferAsPassed ==
  IF reused
  THEN prev.null \/ \A j \in 0..(2 * prev.len - 1) : data[j] = prev.out[j]
  ELSE \A j \in DOMAIN data : data[j] = genArgs.fill

\* C10: generate_sin with a buffer and data_length = 0 stores nothing and
\* returns S_SUCCESS.
C10_ZeroLength ==
  (prog = "generate_sin" /\ ~genArgs.null /\ genArgs.len = 0) =>
    /\ written = {}
    /\ BufferAsPassed
    /\ pc = "gen_done" => genRet = S_SUCCESS

C10_Witness ==
  /\ prog = "generate_sin"
  /\ pc = "gen_done"
  /\ ~genArgs.null
  /\ genArgs.len = 0
  /\ genRet = S_SUCCESS

\* C11: generate_sin called with a NULL buffer returns S_ERROR and stores
\* nothing; called with a buffer it returns S_SUCCESS.
C11_NullBuffer ==
  prog = "generate_sin" =>
    /\ genArgs.null =>
         /\ written = {}
         /\ n = 0
         /\ BufferAsPassed
         /\ pc = "gen_done" => genRet = S_ERROR
    /\ (~genArgs.null /\ pc = "gen_done") => genRet = S_SUCCESS

C11_Witness ==
  /\ prog = "generate_sin"
  /\ pc = "gen_done"
  /\ genArgs.null
  /\ genArgs.len > 0
  /\ genRet = S_ERROR

\* C12: in an iteration of the streaming loop, a write the driver accepted
\* is followed by the next iteration without a recover call; a write the
\* driver failed is followed by exactly one recover call; and when that
\* recover call fails too, main stops writing, frees the buffer, closes the
\* device and returns S_ERROR.
C12_WriteThenRecover ==
  [][(prog \in Programs /\ nWrites' # nWrites) =>
       /\ (nFailed < MaxFailCount /\ nFailed' = nFailed) =>
            (nRecovers' = nRecovers /\ i' = i + 1 /\ pc' = "loop")
       /\ (nFailed' = nFailed + 1) => nRecovers' = nRecovers + 1
       /\ nRecovers' \in {nRecovers, nRecovers + 1}
       /\ (stepsOk /\ ~stepsOk') =>
            /\ pc' = "exit"
            /\ nWrites' = nWrites + 1
            /\ teardown' = <<"free", "close">>
            /\ mainRet' = S_ERROR]_vars

\* C13 as stated: a write that failed is sent again after its recovery, so
\* a session that ends in success has delivered LoopCount successful writes.
C13_RetriedOnce ==
  (prog \in Programs /\ pc = "exit" /\ mainRet = S_SUCCESS
     /\ nFailed < MaxFailCount)
    => nWrites - nFailed = LoopCount(prog)

\* C13: a write that failed is not sent again: every iteration issues
\* exactly one snd_pcm_writei, recovered or not, so a session that ends in
\* success has issued LoopCount writes, the failed ones included.
C13_NoRetry ==
  prog \in Programs =>
    /\ pc = "loop" => nWrites = i
    /\ (pc = "exit" /\ mainRet = S_SUCCESS) =>
         (nWrites = LoopCount(prog) /\ i = LoopCount(prog))

C13_Witness ==
  /\ prog = "sine"
  /\ pc = "exit"
  /\ mainRet = S_SUCCESS
  /\ nFailed = 1
  /\ nRecovers = 1
  /\ nWrites = NumberOfFrames

\* C14: the sine program, when the driver and malloc make every step before
\* the loop succeed, exactly one write of the loop fails and its recovery
\* succeeds, ends by returning S_SUCCESS after exactly one free and exactly
\* one snd_pcm_close.
C14_OneFailureRecovered ==
  (prog = "sine" /\ pc = "exit" /\ stepsOk /\ nFailed = 1) =>
    /\ mainRet = S_SUCCESS
    /\ teardown = <<"free", "close">>

\* how many times main has made the call c (free or close)
TeardownCount(c) == Cardinality({j \in 1..Len(teardown) : teardown[j] = c})

\* C15: in both playback programs the buffer, once allocated, is freed
\* exactly once before main returns, whichever exit is taken; it is not
\* written from or filled after the free (main returns in the step that
\* frees it), and the free precedes the snd_pcm_close.
C15_FreedOnceBeforeClose ==
  prog \in Programs =>
    /\ pc = "exit" => buf \in {"none", "freed"}
    /\ buf = "none" => (TeardownCount("free") = 0 /\ nWrites = 0 /\ filled = 0)
    /\ buf = "allocated" => (teardown = <<>> /\ handle # "closed")
    /\ buf = "freed" =>
         /\ pc = "exit"
         /\ TeardownCount("free") = 1
         /\ \E j \in 1..Len(teardown) :
              /\ teardown[j] = "free"
              /\ \A k \in 1..Len(teardown) : teardown[k] = "close" => j < k
         /\ handle = "closed"

C15_Witness ==
  /\ prog \in Programs
  /\ pc = "exit"
  /\ mainRet = S_ERROR
  /\ nWrites > 0
  /\ nWrites < LoopCount(prog)
  /\ buf = "freed"
  /\ teardown = <<"free", "close">>

\* C16: every example program that has opened the device calls
\* snd_pcm_close exactly once before its main returns, whichever path it
\* takes, and makes no driver call once the handle is closed.
C16_ClosedOnce ==
  /\ pc = "exit" => handle # "open"
  /\ TeardownCount("close") <= 1
  /\ handle = "closed" => (pc = "exit" /\ TeardownCount("close") = 1)

\* C17: a playback program returns S_SUCCESS exactly when the open, every
\* call of the configuration, the allocation, the generation and every
\* iteration of the loop (its write, or else its recovery) succeeded, and
\* returns S_ERROR otherwise.
C17_ReturnTellsOutcome ==
  (prog \in Programs /\ pc = "exit") =>
    /\ mainRet \in {S_SUCCESS, S_ERROR}
    /\ mainRet = S_SUCCESS <=> stepsOk

\* C18: a session issues at most LoopCount writes and at most LoopCount
\* recover calls; every write is for period_size frames from the start of
\* the buffer; and a session that reached the loop and in which the driver
\* failed no write has issued exactly LoopCount writes when main returns.
C18_BoundedLoop ==
  prog \in Programs =>
    /\ nWrites <= LoopCount(prog)
    /\ nRecovers <= LoopCount(prog)
    /\ nWrites > 0 => lastWrite = [off |-> 0, frames |-> cfgEntry.period_size]
    /\ (pc = "exit" /\ filled > 0 /\ nFailed = 0) => nWrites = LoopCount(prog)

FrameProduct(p, c) ==
  IF p = "part_000" THEN c.frame_size * c.number_of_frames
  ELSE c.period_size * c.periods

\* the buffer-size argument the implementation of program p submits
BufferArg(p, c) ==
  IF p = "part_000" THEN BufferFramesInline(c) ELSE BufferFrames(p, c)

\* the programs whose configure implementation scales the product down
ShiftingImplementations ==
  {p \in Examples :
     BufferArg(p, ConfigOf(p)) = FrameProduct(p, ConfigOf(p)) \div 4}

\* the arguments configure_hw hands to the driver at stage k, as the
\* record passed in determines them, whichever variant runs
StageArg(k) ==
  CASE k = 2 -> cfgEntry.access_type
    [] k = 3 -> cfgEntry.format
    [] k = 4 -> cfgEntry.sample_rate
    [] k = 5 -> cfgEntry.num_channels
    [] k = 6 -> cfgEntry.periods
    [] OTHER -> 0

\* every configure_hw variant has so far made the stage calls in order
\* with the arguments of the record, the buffer size left aside
SameCallsAsRecord ==
  prog \in ConfigureCallers =>
    \A j \in 1..Len(DriverCalls) :
      /\ j <= 8
      /\ DriverCalls[j].fn = StageNames[j]
      /\ j # 7 => DriverCalls[j].arg = StageArg(j)

C21_DesiredRateOnEntry ==
  \A j \in 1..Len(calls) :
    /\ calls[j].fn = "set_rate_near" => calls[j].arg = cfgEntry.sample_rate
    /\ calls[j].fn = "warning" =>
         /\ calls[j].out # cfgEntry.sample_rate
         /\ j > 1
         /\ calls[j - 1].fn = "set_rate_near"
         /\ calls[j - 1].out = calls[j].out

\* C22: in every program the first negotiation call made after the open is
\* snd_pcm_hw_params_any, and a constraint call is made only after that
\* probe has succeeded.
C22_ProbeFirst ==
  Len(DriverCalls) > 0 =>
    /\ handle # "none"
    /\ DriverCalls[1].fn = "hw_params_any"
    /\ Len(DriverCalls) > 1 => DriverCalls[1].ret >= 0

\* C23: in the streaming loop snd_pcm_recover is called only after a write
\* for which the driver returned a negative code.
C23_RecoverOnlyAfterFailure ==
  [][(prog \in Programs /\ nFailed < MaxFailCount
        /\ nRecovers' = nRecovers + 1)
       => nFailed' = nFailed + 1]_vars

\* C24: configure_hw takes a driver call for failed exactly when the code
\* the driver returned is negative: a call that another call follows had
\* returned a non-negative code, and the call recorded as the failing stage
\* is the last one and had returned a negative code.
C24_SignSurvives ==
  prog = "configure_hw" =>
    /\ \A j \in 1..(Len(DriverCalls) - 1) : DriverCalls[j].ret >= 0
    /\ failStage # 0 =>
         /\ Len(DriverCalls) = failStage
         /\ DriverCalls[failStage].ret < 0
    /\ (pc = "cfg_done" /\ failStage = 0) =>
         \A j \in 1..Len(DriverCalls) : DriverCalls[j].ret >= 0

\* C25: in the sine program the rate generate_sin computes with is the
\* rate the device accepted, as sample_rate holds it after configure_hw.
C25_GeneratorRate ==
  (prog = "sine" /\ genRet # -1) => genArgs.fs = cfg.sample_rate

\* C26: generate_sin stores only into the elements 0 .. 2*data_length-1,
\* and a buffer allocated as the sine program does for sine_size =
\* data_length frames holds every one of them, whatever the size of a
\* pointer and whatever frame count the period negotiation has left.
C26_WritesInsideAllocation ==
  prog = "generate_sin" =>
    /\ written \subseteq 0..(2 * genArgs.len - 1)
    /\ \A cap \in BufferCapacities(genArgs.len) :
         /\ cap >= 2 * genArgs.len
         /\ \A j \in written : j < cap

C26_Witness ==
  /\ prog = "generate_sin"
  /\ pc = "gen_done"
  /\ ~genArgs.null
  /\ genArgs.len = MaxLen
  /\ written = 0..(2 * MaxLen - 1)
  /\ 2 * MaxLen \in BufferCapacities(genArgs.len)

\* C27: the samples the device reads in a write, period_size frames of
\* num_channels samples from the start of the buffer, all lie inside the
\* allocation and were all filled before the first write, whatever period
\* count the device has written back.
C27_ReadsFilledSamples ==
  (prog \in Programs /\ nWrites > 0) =>
    LET need == lastWrite.frames * cfg.num_channels IN
    /\ lastWrite.off = 0
    /\ need <= filled
    /\ \A cap \in BufferCapacities(cfg.period_size * cfg.periods) : need <= cap

\* the running configure_hw call has made the driver call fn
Reached(fn) == \E j \in 1..Len(calls) : calls[j].fn = fn

\* C28: when configure_hw returns from a failure of the probe, the access
\* stage or the format stage the record is as it was on entry; sample_rate
\* differs from its entry value only once the rate call was made, and
\* periods only once the period call was made.
C28_EarlyFailureKeepsRecord ==
  prog = "configure_hw" =>
    /\ (pc = "cfg_done" /\ failStage \in 1..3) => cfg = cfgEntry
    /\ cfg.sample_rate # cfgEntry.sample_rate => Reached("set_rate_near")
    /\ cfg.periods # cfgEntry.periods => Reached("set_periods_near")
    /\ ~Reached("set_rate_near") => cfg = cfgEntry

C28_Witness ==
  /\ prog = "configure_hw"
  /\ pc = "cfg_done"
  /\ failStage = 3
  /\ cfgRet = S_ERROR
  /\ Len(DriverCalls) = 3
  /\ cfgEntry.sample_rate # MainConfig.sample_rate
  /\ cfg = cfgEntry

====
